---- MODULE Spec2Model ----
(***************************************************************************)
(* Model of tensorflow/python/ops/functional_ops.py: the higher order      *)
(* operators foldl, foldr, map_fn and scan.  Each operator unpacks `elems` *)
(* into a TensorArray, initialises an index and an accumulator, and drives *)
(* control_flow_ops.While over a `compute` body.  The model runs one call  *)
(* at a time, one action per statement group of the source.                *)
(*                                                                         *)
(* Tensors are integers, a tensor with a leading dimension is a sequence   *)
(* of integers.  An optional value is <<>> (None) or <<v>>.  A TensorArray *)
(* is a sequence of slots, each slot <<>> (unwritten) or <<v>>; slot k of  *)
(* the source (0-based) is element k+1 of the sequence.                    *)
(***************************************************************************)
EXTENDS Integers, Sequences, FiniteSets

\* ---- bounds of the model ----
MaxLen == 3
MaxVal == 1

Values == 0..MaxVal

None == <<>>

\* sequences over S of length 0..len
RECURSIVE SeqsUpTo(_, _)
SeqsUpTo(S, len) ==
  IF len = 0 THEN {<<>>}
  ELSE LET shorter == SeqsUpTo(S, len - 1)
       IN  shorter \cup {Append(s, v) : s \in {t \in shorter : Len(t) = len - 1}, v \in S}

\* ---- the callables handed to the operators ----
Base == MaxVal + 2
Fn2 == {"add", "sub", "horner"}
Fn1 == {"identity", "square", "succ"}
NonCallable == {"not_callable"}

callable(f) == f \in Fn2 \cup Fn1

\* fn(a, x) of a two-argument callable; "sub" and "horner" are neither
\* commutative nor associative, "horner" is injective in (a, x).
Apply(f, acc, x) ==
  CASE f = "add" -> acc + x
    [] f = "sub" -> acc - x
    [] f = "horner" -> acc * Base + x

\* fn(x) of a one-argument callable
Apply1(f, x) ==
  CASE f = "identity" -> x
    [] f = "square" -> x * x
    [] f = "succ" -> x + 1

\* ---- TensorArray and shape primitives ----
Shape0(v) == Len(v)

TensorArray(size) == [k \in 1..size |-> <<>>]

Unpack(ta, v) == [k \in 1..Len(ta) |-> <<v[k]>>]

InRange(ta, idx) == idx >= 0 /\ idx < Len(ta)

Readable(ta, idx) == InRange(ta, idx) /\ ta[idx + 1] # <<>>

Read(ta, idx) == ta[idx + 1][1]

Write(ta, idx, v) == [ta EXCEPT ![idx + 1] = <<v>>]

Packable(ta) == \A k \in 1..Len(ta) : ta[k] # <<>>

Pack(ta) == [k \in 1..Len(ta) |-> ta[k][1]]

\* ---- state ----
VARIABLES
  elems,        \* the `elems` argument
  initializer,  \* the `initializer` argument, None or <<z>>
  op,           \* the operator being called
  fn,           \* the `fn` argument
  pc,           \* position of the call
  n,            \* local n
  elems_ta,     \* local elems_ta
  i,            \* loop variable i
  a,            \* loop variable a
  acc_ta,       \* local acc_ta / loop variable ta
  result,       \* the returned tensor
  err,          \* the raised error
  prev,         \* outcome of the previous call
  trace,        \* history: the indices handed to fn by the loop body, in order
  wcount,       \* history: number of writes to each slot of acc_ta
  allocs        \* history: TensorArrays constructed by the call

vars == <<elems, initializer, op, fn, pc, n, elems_ta, i, a, acc_ta, result,
          err, prev, trace, wcount, allocs>>

args == <<elems, initializer, op, fn, prev>>

NoPrev == [op |-> "none", fn |-> "none", pc |-> "idle", result |-> <<>>, err |-> "none"]

Init ==
  /\ elems \in SeqsUpTo(Values, MaxLen)
  /\ initializer \in {None} \cup {<<z>> : z \in Values}
  /\ op = "none" /\ fn = "none" /\ pc = "idle"
  /\ n = 0 /\ elems_ta = <<>> /\ i = 0 /\ a = 0 /\ acc_ta = <<>>
  /\ result = <<>> /\ err = "none"
  /\ prev = NoPrev
  /\ trace = <<>> /\ wcount = <<>> /\ allocs = 0

\* a call of operator o with callable f: fresh locals, the finished call is
\* remembered in prev
Enter(o, f) ==
  /\ pc \in {"idle", "done", "raised"}
  /\ prev' = IF pc = "idle" THEN prev
             ELSE [op |-> op, fn |-> fn, pc |-> pc, result |-> result, err |-> err]
  /\ op' = o /\ fn' = f /\ pc' = "check"
  /\ n' = 0 /\ elems_ta' = <<>> /\ i' = 0 /\ a' = 0 /\ acc_ta' = <<>>
  /\ result' = <<>> /\ err' = "none"
  /\ trace' = <<>> /\ wcount' = <<>> /\ allocs' = 0
  /\ UNCHANGED <<elems, initializer>>

Raise(e) ==
  /\ pc' = "raised" /\ err' = e
  /\ UNCHANGED <<args, n, elems_ta, i, a, acc_ta, result, trace, wcount, allocs>>

\* if not callable(fn): raise TypeError
CheckCallable ==
  IF ~callable(fn) THEN Raise("TypeError")
  ELSE /\ pc' = "unpack"
       /\ UNCHANGED <<args, n, elems_ta, i, a, acc_ta, result, err, trace, wcount, allocs>>

\* n = shape(elems)[0]; elems_ta = TensorArray(size=n).unpack(elems)
ConvertElems ==
  /\ n' = Shape0(elems)
  /\ elems_ta' = Unpack(TensorArray(Shape0(elems)), elems)
  /\ allocs' = allocs + 1
  /\ pc' = "init"
  /\ UNCHANGED <<args, i, a, acc_ta, result, err, trace, wcount>>

\* ---- foldl ----
foldl_call == \E f \in Fn2 \cup NonCallable : Enter("foldl", f)

foldl_check == pc = "check" /\ op = "foldl" /\ CheckCallable

foldl_unpack == pc = "unpack" /\ op = "foldl" /\ ConvertElems

\* foldl_init special-casing the empty input
foldl_init_empty ==
  /\ pc = "init" /\ op = "foldl"
  /\ IF initializer = None /\ n > 0
     THEN IF Readable(elems_ta, 0)
          THEN /\ a' = Read(elems_ta, 0)
               /\ i' = 1
               /\ pc' = "loop"
               /\ UNCHANGED <<args, n, elems_ta, acc_ta, result, err, trace, wcount, allocs>>
          ELSE Raise("IndexError")
     ELSE /\ a' = IF initializer = None THEN 0 ELSE initializer[1]
          /\ i' = 0
          /\ pc' = "loop"
          /\ UNCHANGED <<args, n, elems_ta, acc_ta, result, err, trace, wcount, allocs>>

foldl_init ==
  /\ pc = "init" /\ op = "foldl"
  /\ IF initializer = None
     THEN IF Readable(elems_ta, 0)
          THEN /\ a' = Read(elems_ta, 0)
               /\ i' = 1
               /\ pc' = "loop"
               /\ UNCHANGED <<args, n, elems_ta, acc_ta, result, err, trace, wcount, allocs>>
          ELSE Raise("IndexError")
     ELSE /\ a' = initializer[1]
          /\ i' = 0
          /\ pc' = "loop"
          /\ UNCHANGED <<args, n, elems_ta, acc_ta, result, err, trace, wcount, allocs>>

foldl_cond(i_, n_) == i_ < n_

\* foldl_body with the arguments of fn swapped
foldl_body_swapped(f, ta, i_, a_) ==
  IF Readable(ta, i_)
  THEN [ok |-> TRUE, i |-> i_ + 1, a |-> Apply(f, Read(ta, i_), a_), read |-> i_]
  ELSE [ok |-> FALSE, i |-> i_, a |-> a_, read |-> i_]

foldl_body(f, ta, i_, a_) ==
  IF Readable(ta, i_)
  THEN [ok |-> TRUE, i |-> i_ + 1, a |-> Apply(f, a_, Read(ta, i_)), read |-> i_]
  ELSE [ok |-> FALSE, i |-> i_, a |-> a_, read |-> i_]

foldl_compute ==
  /\ pc = "loop" /\ op = "foldl"
  /\ foldl_cond(i, n)
  /\ LET r == foldl_body(fn, elems_ta, i, a)
     IN  IF r.ok
         THEN /\ i' = r.i /\ a' = r.a
              /\ trace' = Append(trace, r.read)
              /\ UNCHANGED <<args, pc, n, elems_ta, acc_ta, result, err, wcount, allocs>>
         ELSE Raise("IndexError")

foldl_return ==
  /\ pc = "loop" /\ op = "foldl"
  /\ ~foldl_cond(i, n)
  /\ result' = a
  /\ pc' = "done"
  /\ UNCHANGED <<args, n, elems_ta, i, a, acc_ta, err, trace, wcount, allocs>>

\* ---- foldr ----
foldr_call == \E f \in Fn2 \cup NonCallable : Enter("foldr", f)

foldr_check == pc = "check" /\ op = "foldr" /\ CheckCallable

foldr_unpack == pc = "unpack" /\ op = "foldr" /\ ConvertElems

foldr_init ==
  /\ pc = "init" /\ op = "foldr"
  /\ IF initializer = None
     THEN IF Readable(elems_ta, n - 1)
          THEN /\ i' = n - 1
               /\ a' = Read(elems_ta, n - 1)
               /\ pc' = "loop"
               /\ UNCHANGED <<args, n, elems_ta, acc_ta, result, err, trace, wcount, allocs>>
          ELSE /\ i' = n - 1
               /\ pc' = "raised" /\ err' = "IndexError"
               /\ UNCHANGED <<args, n, elems_ta, a, acc_ta, result, trace, wcount, allocs>>
     ELSE /\ i' = n
          /\ a' = initializer[1]
          /\ pc' = "loop"
          /\ UNCHANGED <<args, n, elems_ta, acc_ta, result, err, trace, wcount, allocs>>

\* foldr_cond running the body once more at i = 0
foldr_cond_geq(i_, n_) == i_ >= 0

foldr_cond(i_, n_) == i_ > 0

\* foldr_body reading before the decrement
foldr_body_postdec(f, ta, i_, a_) ==
  IF Readable(ta, i_)
  THEN [ok |-> TRUE, i |-> i_ - 1, a |-> Apply(f, a_, Read(ta, i_)), read |-> i_]
  ELSE [ok |-> FALSE, i |-> i_ - 1, a |-> a_, read |-> i_]

foldr_body(f, ta, i_, a_) ==
  IF Readable(ta, i_ - 1)
  THEN [ok |-> TRUE, i |-> i_ - 1, a |-> Apply(f, a_, Read(ta, i_ - 1)), read |-> i_ - 1]
  ELSE [ok |-> FALSE, i |-> i_ - 1, a |-> a_, read |-> i_ - 1]

foldr_compute ==
  /\ pc = "loop" /\ op = "foldr"
  /\ foldr_cond(i, n)
  /\ LET r == foldr_body(fn, elems_ta, i, a)
     IN  IF r.ok
         THEN /\ i' = r.i /\ a' = r.a
              /\ trace' = Append(trace, r.read)
              /\ UNCHANGED <<args, pc, n, elems_ta, acc_ta, result, err, wcount, allocs>>
         ELSE Raise("IndexError")

foldr_return ==
  /\ pc = "loop" /\ op = "foldr"
  /\ ~foldr_cond(i, n)
  /\ result' = a
  /\ pc' = "done"
  /\ UNCHANGED <<args, n, elems_ta, i, a, acc_ta, err, trace, wcount, allocs>>

\* ---- map_fn ----
map_fn_call == \E f \in Fn1 \cup NonCallable : Enter("map_fn", f)

map_fn_check == pc = "check" /\ op = "map_fn" /\ CheckCallable

map_fn_unpack == pc = "unpack" /\ op = "map_fn" /\ ConvertElems

map_fn_init ==
  /\ pc = "init" /\ op = "map_fn"
  /\ i' = 0
  /\ acc_ta' = TensorArray(n)
  /\ wcount' = [k \in 1..n |-> 0]
  /\ allocs' = allocs + 1
  /\ pc' = "loop"
  /\ UNCHANGED <<args, n, elems_ta, a, result, err, trace>>

\* map_fn_cond running the body once more at i = n
map_fn_cond_leq(i_, n_) == i_ <= n_

map_fn_cond(i_, n_) == i_ < n_

\* map_fn_body always reading slot 0 of elems_ta
map_fn_body_first(f, ets, i_, ta) ==
  IF ~Readable(ets, 0)
  THEN [ok |-> FALSE, i |-> i_, ta |-> ta, read |-> 0, wrote |-> i_]
  ELSE IF ~InRange(ta, i_)
  THEN [ok |-> FALSE, i |-> i_, ta |-> ta, read |-> 0, wrote |-> i_]
  ELSE [ok |-> TRUE, i |-> i_ + 1, ta |-> Write(ta, i_, Apply1(f, Read(ets, 0))),
        read |-> 0, wrote |-> i_]

map_fn_body(f, ets, i_, ta) ==
  IF ~Readable(ets, i_)
  THEN [ok |-> FALSE, i |-> i_, ta |-> ta, read |-> i_, wrote |-> i_]
  ELSE IF ~InRange(ta, i_)
  THEN [ok |-> FALSE, i |-> i_, ta |-> ta, read |-> i_, wrote |-> i_]
  ELSE [ok |-> TRUE, i |-> i_ + 1, ta |-> Write(ta, i_, Apply1(f, Read(ets, i_))),
        read |-> i_, wrote |-> i_]

map_fn_compute ==
  /\ pc = "loop" /\ op = "map_fn"
  /\ map_fn_cond(i, n)
  /\ LET r == map_fn_body(fn, elems_ta, i, acc_ta)
     IN  IF r.ok
         THEN /\ i' = r.i /\ acc_ta' = r.ta
              /\ trace' = Append(trace, r.read)
              /\ wcount' = [wcount EXCEPT ![r.wrote + 1] = @ + 1]
              /\ UNCHANGED <<args, pc, n, elems_ta, a, result, err, allocs>>
         ELSE Raise("IndexError")

map_fn_return ==
  /\ pc = "loop" /\ op = "map_fn"
  /\ ~map_fn_cond(i, n)
  /\ IF Packable(acc_ta)
     THEN /\ result' = Pack(acc_ta)
          /\ pc' = "done"
          /\ UNCHANGED <<args, n, elems_ta, i, a, acc_ta, err, trace, wcount, allocs>>
     ELSE Raise("IncompleteError")

\* ---- scan ----
scan_call == \E f \in Fn2 \cup NonCallable : Enter("scan", f)

\* scan_check validating fn only after elems is unpacked
scan_check_late ==
  /\ pc = "check" /\ op = "scan"
  /\ IF ~callable(fn)
     THEN /\ n' = Shape0(elems)
          /\ elems_ta' = Unpack(TensorArray(Shape0(elems)), elems)
          /\ allocs' = allocs + 1
          /\ pc' = "raised" /\ err' = "TypeError"
          /\ UNCHANGED <<args, i, a, acc_ta, result, trace, wcount>>
     ELSE /\ pc' = "unpack"
          /\ UNCHANGED <<args, n, elems_ta, i, a, acc_ta, result, err, trace, wcount, allocs>>

scan_check == pc = "check" /\ op = "scan" /\ CheckCallable

scan_unpack == pc = "unpack" /\ op = "scan" /\ ConvertElems

\* scan_init starting the loop at index 0 also without an initializer
scan_init_from0 ==
  /\ pc = "init" /\ op = "scan"
  /\ IF initializer = None
     THEN IF Readable(elems_ta, 0)
          THEN /\ a' = Read(elems_ta, 0)
               /\ i' = 0
               /\ pc' = "alloc"
               /\ UNCHANGED <<args, n, elems_ta, acc_ta, result, err, trace, wcount, allocs>>
          ELSE Raise("IndexError")
     ELSE /\ a' = initializer[1]
          /\ i' = 0
          /\ pc' = "alloc"
          /\ UNCHANGED <<args, n, elems_ta, acc_ta, result, err, trace, wcount, allocs>>

scan_init ==
  /\ pc = "init" /\ op = "scan"
  /\ IF initializer = None
     THEN IF Readable(elems_ta, 0)
          THEN /\ a' = Read(elems_ta, 0)
               /\ i' = 1
               /\ pc' = "alloc"
               /\ UNCHANGED <<args, n, elems_ta, acc_ta, result, err, trace, wcount, allocs>>
          ELSE Raise("IndexError")
     ELSE /\ a' = initializer[1]
          /\ i' = 0
          /\ pc' = "alloc"
          /\ UNCHANGED <<args, n, elems_ta, acc_ta, result, err, trace, wcount, allocs>>

scan_alloc ==
  /\ pc = "alloc" /\ op = "scan"
  /\ allocs' = allocs + 1
  /\ IF initializer = None
     THEN IF InRange(TensorArray(n), 0)
          THEN /\ acc_ta' = Write(TensorArray(n), 0, a)
               /\ wcount' = [k \in 1..n |-> IF k = 1 THEN 1 ELSE 0]
               /\ pc' = "loop"
               /\ UNCHANGED <<args, n, elems_ta, i, a, result, err, trace>>
          ELSE /\ acc_ta' = TensorArray(n)
               /\ wcount' = [k \in 1..n |-> 0]
               /\ pc' = "raised" /\ err' = "IndexError"
               /\ UNCHANGED <<args, n, elems_ta, i, a, result, trace>>
     ELSE /\ acc_ta' = TensorArray(n)
          /\ wcount' = [k \in 1..n |-> 0]
          /\ pc' = "loop"
          /\ UNCHANGED <<args, n, elems_ta, i, a, result, err, trace>>

scan_cond(i_, n_) == i_ < n_

\* scan_body writing the new accumulator but carrying the old one
scan_body_stale(f, ets, i_, a_, ta) ==
  IF ~Readable(ets, i_)
  THEN [ok |-> FALSE, i |-> i_, a |-> a_, ta |-> ta, read |-> i_, wrote |-> i_]
  ELSE IF ~InRange(ta, i_)
  THEN [ok |-> FALSE, i |-> i_, a |-> a_, ta |-> ta, read |-> i_, wrote |-> i_]
  ELSE LET na == Apply(f, a_, Read(ets, i_))
       IN  [ok |-> TRUE, i |-> i_ + 1, a |-> a_, ta |-> Write(ta, i_, na),
            read |-> i_, wrote |-> i_]

scan_body(f, ets, i_, a_, ta) ==
  IF ~Readable(ets, i_)
  THEN [ok |-> FALSE, i |-> i_, a |-> a_, ta |-> ta, read |-> i_, wrote |-> i_]
  ELSE IF ~InRange(ta, i_)
  THEN [ok |-> FALSE, i |-> i_, a |-> a_, ta |-> ta, read |-> i_, wrote |-> i_]
  ELSE LET na == Apply(f, a_, Read(ets, i_))
       IN  [ok |-> TRUE, i |-> i_ + 1, a |-> na, ta |-> Write(ta, i_, na),
            read |-> i_, wrote |-> i_]

scan_compute ==
  /\ pc = "loop" /\ op = "scan"
  /\ scan_cond(i, n)
  /\ LET r == scan_body(fn, elems_ta, i, a, acc_ta)
     IN  IF r.ok
         THEN /\ i' = r.i /\ a' = r.a /\ acc_ta' = r.ta
              /\ trace' = Append(trace, r.read)
              /\ wcount' = [wcount EXCEPT ![r.wrote + 1] = @ + 1]
              /\ UNCHANGED <<args, pc, n, elems_ta, result, err, allocs>>
         ELSE Raise("IndexError")

scan_return ==
  /\ pc = "loop" /\ op = "scan"
  /\ ~scan_cond(i, n)
  /\ IF Packable(acc_ta)
     THEN /\ result' = Pack(acc_ta)
          /\ pc' = "done"
          /\ UNCHANGED <<args, n, elems_ta, i, a, acc_ta, err, trace, wcount, allocs>>
     ELSE Raise("IncompleteError")

Next ==
  \/ foldl_call
  \/ foldl_check
  \/ foldl_unpack
  \/ foldl_init
  \/ foldl_compute
  \/ foldl_return
  \/ foldr_call
  \/ foldr_check
  \/ foldr_unpack
  \/ foldr_init
  \/ foldr_compute
  \/ foldr_return
  \/ map_fn_call
  \/ map_fn_check
  \/ map_fn_unpack
  \/ map_fn_init
  \/ map_fn_compute
  \/ map_fn_return
  \/ scan_call
  \/ scan_check
  \/ scan_unpack
  \/ scan_init
  \/ scan_alloc
  \/ scan_compute
  \/ scan_return

Spec == Init /\ [][Next]_vars

\* once called, the interpreter runs the call to its return or raise
Progress ==
  \/ foldl_check \/ foldl_unpack \/ foldl_init \/ foldl_compute \/ foldl_return
  \/ foldr_check \/ foldr_unpack \/ foldr_init \/ foldr_compute \/ foldr_return
  \/ map_fn_check \/ map_fn_unpack \/ map_fn_init \/ map_fn_compute \/ map_fn_return
  \/ scan_check \/ scan_unpack \/ scan_init \/ scan_alloc \/ scan_compute \/ scan_return

FairSpec == Init /\ [][Next]_vars /\ WF_vars(Progress)

\* ---- properties ----
Terminal == pc \in {"done", "raised"}

RECURSIVE FoldLeft(_, _, _)
FoldLeft(f, acc, xs) ==
  IF xs = <<>> THEN acc ELSE FoldLeft(f, Apply(f, acc, Head(xs)), Tail(xs))

Reverse(xs) == [k \in 1..Len(xs) |-> xs[Len(xs) + 1 - k]]

\* fn(...fn(fn(z, x0), x1)..., x(n-1)), z being x0 itself when absent
LeftToRight(f, z, xs) ==
  IF z = None THEN FoldLeft(f, Head(xs), Tail(xs)) ELSE FoldLeft(f, z[1], xs)

\* fn(...fn(fn(z, x(n-1)), x(n-2))..., x0), z being x(n-1) itself when absent
RightToLeft(f, z, xs) == LeftToRight(f, z, Reverse(xs))

\* <<lo, lo+1, ..., hi-1>>
Upward(lo, hi) == [k \in 1..(hi - lo) |-> lo + k - 1]

\* <<hi-1, hi-2, ..., lo>>
Downward(hi, lo) == [k \in 1..(hi - lo) |-> hi - k]

\* the input is non-empty, or the operator was given an initializer
LoopPre ==
  \/ Len(elems) >= 1
  \/ op \in {"foldl", "foldr", "scan"} /\ initializer # None

\* C1: foldl on a non-empty input returns the strict left-to-right fold: the
\* accumulator starts as x0 (or the initializer), and fn is applied once to
\* each remaining element in increasing index order, accumulator first.
C1_FoldlLeftToRight ==
  (op = "foldl" /\ Terminal /\ callable(fn) /\ Len(elems) >= 1) =>
    /\ pc = "done"
    /\ result = LeftToRight(fn, initializer, elems)
    /\ trace = Upward(IF initializer = None THEN 1 ELSE 0, Len(elems))

C1_Witness ==
  /\ op = "foldl" /\ pc = "done" /\ fn = "horner" /\ initializer = None
  /\ Len(elems) >= 3
  /\ result = Apply(fn, Apply(fn, elems[1], elems[2]), elems[3])
  /\ result # RightToLeft(fn, initializer, elems)

C3_ScanLastIsFoldl ==
  /\ (op = "scan" /\ Terminal /\ callable(fn) /\ Len(elems) >= 1) =>
       (pc = "done" /\ Len(result) = Len(elems))
  /\ (op = "scan" /\ Terminal /\ prev.op = "foldl" /\ prev.fn = fn
        /\ callable(fn) /\ Len(elems) >= 1) =>
       (pc = "done" /\ prev.pc = "done" /\ result[Len(result)] = prev.result)
  /\ (op = "foldl" /\ Terminal /\ prev.op = "scan" /\ prev.fn = fn
        /\ callable(fn) /\ Len(elems) >= 1) =>
       (pc = "done" /\ prev.pc = "done" /\ prev.result[Len(prev.result)] = result)

C3_Witness ==
  /\ op = "scan" /\ pc = "done" /\ fn = "horner"
  /\ prev.op = "foldl" /\ prev.fn = fn /\ prev.pc = "done"
  /\ Len(elems) >= 3 /\ Len(result) = Len(elems)
  /\ result[Len(result)] = prev.result

\* C4: map_fn returns one slot per input element, slot k being fn(xs[k]); with
\* the identity it returns the input.
C4_MapSlotwise ==
  (op = "map_fn" /\ Terminal /\ callable(fn)) =>
    /\ pc = "done"
    /\ Len(result) = Len(elems)
    /\ \A k \in 1..Len(elems) : result[k] = Apply1(fn, elems[k])
    /\ (fn = "identity" => result = elems)

C4_Witness ==
  /\ op = "map_fn" /\ pc = "done" /\ fn = "succ"
  /\ Len(elems) >= 3 /\ elems[1] # elems[2]
  /\ result = [k \in 1..Len(elems) |-> elems[k] + 1]

\* C5: a call with a non-callable fn raises TypeError at the check, before any
\* TensorArray is constructed or unpacked and before any loop step.
C5_NotCallableFailsFirst ==
  (op # "none" /\ ~callable(fn)) =>
    /\ pc \in {"check", "raised"}
    /\ (pc = "raised" => err = "TypeError")
    /\ allocs = 0 /\ elems_ta = <<>> /\ acc_ta = <<>>
    /\ trace = <<>> /\ wcount = <<>>

C5_Witness ==
  /\ op = "scan" /\ fn \in NonCallable
  /\ pc = "raised" /\ err = "TypeError" /\ allocs = 0
  /\ Len(elems) >= 1

\* C6: foldl, foldr and scan on an empty input without initializer fail with an
\* index error at the initial accumulator read; no result is returned and the
\* loop body is never entered.
C6_EmptyNoInitializerFails ==
  (op \in {"foldl", "foldr", "scan"} /\ callable(fn)
     /\ Len(elems) = 0 /\ initializer = None) =>
    /\ pc \in {"check", "unpack", "init", "raised"}
    /\ (pc = "raised" => err = "IndexError")
    /\ trace = <<>>

C6_Witness ==
  /\ op = "foldr" /\ callable(fn) /\ initializer = None
  /\ n = 0 /\ allocs = 1 /\ i = -1
  /\ pc = "raised" /\ err = "IndexError"

\* C7: foldr without initializer on a non-empty input starts its accumulator
\* from the first element of elems (slot 0).
C7_FoldrStartsAtFirst ==
  (op = "foldr" /\ initializer = None /\ pc = "loop" /\ trace = <<>> /\ n >= 1) =>
    a = elems[1]

\* C8 as stated: map_fn on an input with zero elements fails via an
\* out-of-range read of the input buffer.
C8_MapEmptyFails ==
  (op = "map_fn" /\ callable(fn) /\ Len(elems) = 0 /\ Terminal) =>
    (pc = "raised" /\ err = "IndexError")

\* C8 as amended: map_fn on an input with zero elements never reads the input
\* buffer and raises nothing; the loop body runs zero times and the packed
\* output buffer, of length zero, is returned.
C8_MapEmptyReturnsEmpty ==
  (op = "map_fn" /\ callable(fn) /\ Len(elems) = 0) =>
    /\ pc # "raised" /\ err = "none"
    /\ trace = <<>>
    /\ (pc = "done" => result = <<>> /\ i = 0 /\ allocs = 2)

C8_Witness ==
  /\ op = "map_fn" /\ callable(fn) /\ Len(elems) = 0
  /\ pc = "done" /\ result = <<>> /\ trace = <<>>

\* number of body runs the loop owes
C9_Runs == IF op = "map_fn" \/ initializer # None THEN n ELSE n - 1

C9_Exit ==
  (op # "none" /\ callable(fn) /\ LoopPre /\ Terminal) =>
    /\ pc = "done"
    /\ n = Len(elems)
    /\ i = (IF op = "foldr" THEN 0 ELSE n)
    /\ Len(trace) = C9_Runs
    /\ (n = 0 =>
          /\ trace = <<>>
          /\ a = initializer[1]
          /\ acc_ta = <<>>
          /\ (op \in {"foldl", "foldr"} => result = initializer[1]))

\* C9: with a non-empty input or an initializer the loop of every operator
\* terminates; foldl, map_fn and scan exit at i = n and foldr at i = 0, after
\* n body runs (n-1 without initializer, n always for map_fn); on an empty
\* input with initializer the body never runs and the accumulator is the
\* initializer.
C9_LoopTerminates ==
  /\ []C9_Exit
  /\ ((pc = "check" /\ callable(fn) /\ LoopPre) ~> (pc = "done"))

C9_Witness ==
  /\ op = "foldr" /\ pc = "done" /\ initializer = None
  /\ n >= 3 /\ i = 0 /\ Len(trace) = n - 1

\* C10: in map_fn and scan no slot of the output buffer is ever written twice,
\* and at loop exit every slot 0..n-1 has been written exactly once; scan
\* without initializer writes slot 0 from the first element before the loop
\* and the loop writes slots 1..n-1; pack never meets an unwritten slot.
C10_WriteOnce ==
  (op \in {"map_fn", "scan"} /\ callable(fn) /\ LoopPre) =>
    /\ \A k \in DOMAIN wcount : wcount[k] <= 1
    /\ err # "IncompleteError"
    /\ (pc \in {"loop", "done"} =>
          /\ Len(wcount) = n /\ Len(acc_ta) = n
          /\ \A k \in 1..n : (wcount[k] = 1) <=> (acc_ta[k] # <<>>))
    /\ (pc = "done" => \A k \in 1..n : wcount[k] = 1)
    /\ (op = "scan" /\ initializer = None /\ pc = "loop" =>
          /\ acc_ta[1] = <<elems[1]>>
          /\ trace = Upward(1, i)
          /\ \A k \in 1..n : wcount[k] = (IF k <= i THEN 1 ELSE 0))

C10_Witness ==
  /\ op = "scan" /\ pc = "done" /\ initializer = None
  /\ n >= 3 /\ \A k \in 1..n : wcount[k] = 1
  /\ result[1] = elems[1]

====
